---------------------------- MODULE Spec2Model ----------------------------
(***************************************************************************)
(* A model of src/app.py, the order-insensitive JSON comparison tool:      *)
(* normalize_json, deep_equal_ignore_order, intersect_json, diff_json,     *)
(* similarity_score, try_load_json and the session handling of main().     *)
(*                                                                         *)
(* Python values are tagged records [t |-> tag, v |-> payload]:            *)
(*   None        [t |-> "null",  v |-> 0]                                  *)
(*   bool        [t |-> "bool",  v |-> TRUE/FALSE]                         *)
(*   int         [t |-> "int",   v |-> n]                                  *)
(*   float n.0   [t |-> "float", v |-> n]   (integral floats only)         *)
(*   float nan   [t |-> "nan",   v |-> 0]   (json.loads accepts NaN)       *)
(*   str         [t |-> "str",   v |-> <<bytes>>]                          *)
(*   list        [t |-> "arr",   v |-> <<values>>]                         *)
(*   dict        [t |-> "obj",   v |-> << <<key, value>>, ... >>]          *)
(* A dict keeps its insertion order (the order of the pairs); keys are     *)
(* unique.  Strings, paths and serialized JSON are sequences of byte       *)
(* codes (ASCII), so that byte order, bigrams and parsing are computed.    *)
(***************************************************************************)
EXTENDS Integers, Sequences, FiniteSets, TLC

VARIABLES a, b, op, res, stack, session, screen

vars == <<a, b, op, res, stack, session, screen>>

----------------------------------------------------------------------------
(* The value model (JsonType, src/app.py line 8).                          *)

JNull == [t |-> "null", v |-> 0]
JBool(x) == [t |-> "bool", v |-> x]
JInt(n) == [t |-> "int", v |-> n]
JFloat(n) == [t |-> "float", v |-> n]
JNaN == [t |-> "nan", v |-> 0]
JStr(s) == [t |-> "str", v |-> s]
JArr(items) == [t |-> "arr", v |-> items]
JObj(pairs) == [t |-> "obj", v |-> pairs]

\* isinstance(x, dict), isinstance(x, list)
IsDict(x) == x.t = "obj"
IsList(x) == x.t = "arr"
IsNumber(x) == x.t \in {"bool", "int", "float"}

\* The numeric value Python compares: bool is a subclass of int, and an int
\* equals the float of the same value.
NumVal(x) == IF x.t = "bool" THEN (IF x.v THEN 1 ELSE 0) ELSE x.v

\* d.keys() as a set, d[k], and d[k] = val (a new key goes last, an old key
\* keeps its place).
DictKeys(d) == {d.v[i][1] : i \in DOMAIN d.v}
DictGet(d, k) == d.v[CHOOSE i \in DOMAIN d.v : d.v[i][1] = k][2]
DictSet(d, k, val) ==
  IF k \in DictKeys(d)
    THEN JObj([i \in DOMAIN d.v |-> IF d.v[i][1] = k THEN <<k, val>> ELSE d.v[i]])
    ELSE JObj(Append(d.v, <<k, val>>))

\* Python's == on parsed JSON values.  nan equals nothing; the values
\* compared always come from separate parses, so no identity shortcut applies.
RECURSIVE PyEq(_, _)
PyEq(x, y) ==
  IF IsNumber(x) /\ IsNumber(y) THEN NumVal(x) = NumVal(y)
  ELSE IF x.t # y.t THEN FALSE
  ELSE IF x.t = "nan" THEN FALSE
  ELSE IF x.t = "arr" THEN
    /\ Len(x.v) = Len(y.v)
    /\ \A i \in DOMAIN x.v : PyEq(x.v[i], y.v[i])
  ELSE IF x.t = "obj" THEN
    /\ DictKeys(x) = DictKeys(y)
    /\ \A k \in DictKeys(x) : PyEq(DictGet(x, k), DictGet(y, k))
  ELSE x.v = y.v

----------------------------------------------------------------------------
(* Bytes.                                                                  *)

\* bytes.__lt__ / str.__lt__ on ASCII: lexicographic order.
BytesLess(s, u) ==
  \E i \in 1..(Len(s) + 1) :
    /\ \A j \in 1..(i - 1) : j <= Len(u) /\ s[j] = u[j]
    /\ i <= Len(u)
    /\ (i = Len(s) + 1 \/ s[i] < u[i])

\* sorted(S) for a set of byte strings.
RECURSIVE SortedKeys(_)
SortedKeys(S) ==
  IF S = {} THEN <<>>
  ELSE LET m == CHOOSE x \in S : \A y \in S \ {x} : BytesLess(x, y)
       IN <<m>> \o SortedKeys(S \ {m})

RECURSIVE IntDigits(_)
IntDigits(n) ==
  IF n < 10 THEN <<48 + n>> ELSE IntDigits(n \div 10) \o <<48 + (n % 10)>>

\* The decimal text of an int.
IntBytes(n) == IF n < 0 THEN <<45>> \o IntDigits(0 - n) ELSE IntDigits(n)

\* orjson.dumps(x): compact separators, dict entries in insertion order,
\* a float with its ".0", nan as null.
RECURSIVE Dumps(_)
RECURSIVE DumpsItems(_)
RECURSIVE DumpsPairs(_)
Dumps(x) ==
  CASE x.t = "null" -> <<110, 117, 108, 108>>
    [] x.t = "nan" -> <<110, 117, 108, 108>>
    [] x.t = "bool" -> IF x.v THEN <<116, 114, 117, 101>>
                               ELSE <<102, 97, 108, 115, 101>>
    [] x.t = "int" -> IntBytes(x.v)
    [] x.t = "float" -> IntBytes(x.v) \o <<46, 48>>
    [] x.t = "str" -> <<34>> \o x.v \o <<34>>
    [] x.t = "arr" -> <<91>> \o DumpsItems(x.v) \o <<93>>
    [] x.t = "obj" -> <<123>> \o DumpsPairs(x.v) \o <<125>>
DumpsItems(items) ==
  IF items = <<>> THEN <<>>
  ELSE IF Len(items) = 1 THEN Dumps(items[1])
  ELSE Dumps(items[1]) \o <<44>> \o DumpsItems(Tail(items))
DumpsPairs(pairs) ==
  IF pairs = <<>> THEN <<>>
  ELSE LET one == <<34>> \o pairs[1][1] \o <<34, 58>> \o Dumps(pairs[1][2])
       IN IF Len(pairs) = 1 THEN one
          ELSE one \o <<44>> \o DumpsPairs(Tail(pairs))

----------------------------------------------------------------------------
(* normalize_json and deep_equal_ignore_order.                             *)

\* A slip in normalize_json: the items left in their order.
Unsorted(items) == items

\* sorted(items, key=orjson.dumps): a stable sort, so an item goes after
\* every item whose key is not greater.
RECURSIVE SortedByDumps(_)
SortedByDumps(items) ==
  IF items = <<>> THEN <<>>
  ELSE LET n == Len(items)
           done == SortedByDumps(SubSeq(items, 1, n - 1))
           x == items[n]
           kx == Dumps(x)
           later == {i \in DOMAIN done : BytesLess(kx, Dumps(done[i]))}
           at == IF later = {} THEN n
                 ELSE CHOOSE i \in later : \A j \in later : i <= j
       IN SubSeq(done, 1, at - 1) \o <<x>> \o SubSeq(done, at, n - 1)

RECURSIVE normalize_json(_)
normalize_json(value) ==
  IF IsDict(value) THEN
    LET ks == SortedKeys(DictKeys(value))
    IN JObj([i \in DOMAIN ks |-> <<ks[i], normalize_json(DictGet(value, ks[i]))>>])
  ELSE IF IsList(value) THEN
    LET normalized_items == [i \in DOMAIN value.v |-> normalize_json(value.v[i])]
    IN JArr(SortedByDumps(normalized_items))
  ELSE value

deep_equal_ignore_order(x, y) == PyEq(normalize_json(x), normalize_json(y))

----------------------------------------------------------------------------
(* Parsing: orjson.loads and json.loads.  Both read the same JSON grammar  *)
(* (here: null, true, false, integers, n.0 floats, strings without         *)
(* escapes, arrays, objects, blanks between tokens); json.loads also       *)
(* accepts the constant NaN, which orjson.loads rejects.  A result is      *)
(* [ok, val, i]: whether a value was read, the value, the next index.      *)

ParseFail == [ok |-> FALSE, val |-> JNull, i |-> 0]
ParseOk(val, i) == [ok |-> TRUE, val |-> val, i |-> i]

IsWs(c) == c \in {32, 10}
IsDigit(c) == c >= 48 /\ c <= 57

RECURSIVE SkipWs(_, _)
SkipWs(s, i) == IF i <= Len(s) /\ IsWs(s[i]) THEN SkipWs(s, i + 1) ELSE i

\* The index after the run of digits that starts at i.
RECURSIVE DigitsEnd(_, _)
DigitsEnd(s, i) == IF i <= Len(s) /\ IsDigit(s[i]) THEN DigitsEnd(s, i + 1) ELSE i

RECURSIVE DigitsValue(_)
DigitsValue(d) ==
  IF d = <<>> THEN 0
  ELSE 10 * DigitsValue(SubSeq(d, 1, Len(d) - 1)) + (d[Len(d)] - 48)

\* The index of the closing quote of the string whose first character is at i
\* (0 when there is none).
RECURSIVE QuoteEnd(_, _)
QuoteEnd(s, i) ==
  IF i > Len(s) THEN 0 ELSE IF s[i] = 34 THEN i ELSE QuoteEnd(s, i + 1)

HasAt(s, i, word) ==
  /\ i + Len(word) - 1 <= Len(s)
  /\ SubSeq(s, i, i + Len(word) - 1) = word

ParseNumber(s, i) ==
  LET neg == s[i] = 45
      d0 == IF neg THEN i + 1 ELSE i
      d1 == DigitsEnd(s, d0)
      n == DigitsValue(SubSeq(s, d0, d1 - 1))
      val == IF neg THEN 0 - n ELSE n
  IN IF d1 = d0 THEN ParseFail
     ELSE IF d1 - d0 > 1 /\ s[d0] = 48 THEN ParseFail
     ELSE IF d1 <= Len(s) /\ s[d1] = 46 THEN
       (IF HasAt(s, d1, <<46, 48>>) /\ DigitsEnd(s, d1 + 1) = d1 + 2
          THEN ParseOk(JFloat(val), d1 + 2)
          ELSE ParseFail)
     ELSE ParseOk(JInt(val), d1)

RECURSIVE ParseValue(_, _, _)
RECURSIVE ParseElems(_, _, _, _)
RECURSIVE ParseMembers(_, _, _, _)
ParseValue(s, i0, nan) ==
  LET i == SkipWs(s, i0)
  IN IF i > Len(s) THEN ParseFail
     ELSE IF HasAt(s, i, <<110, 117, 108, 108>>) THEN ParseOk(JNull, i + 4)
     ELSE IF HasAt(s, i, <<116, 114, 117, 101>>) THEN ParseOk(JBool(TRUE), i + 4)
     ELSE IF HasAt(s, i, <<102, 97, 108, 115, 101>>) THEN ParseOk(JBool(FALSE), i + 5)
     ELSE IF HasAt(s, i, <<78, 97, 78>>) THEN
       (IF nan THEN ParseOk(JNaN, i + 3) ELSE ParseFail)
     ELSE IF s[i] = 34 THEN
       LET q == QuoteEnd(s, i + 1)
       IN IF q = 0 THEN ParseFail ELSE ParseOk(JStr(SubSeq(s, i + 1, q - 1)), q + 1)
     ELSE IF s[i] = 91 THEN
       LET k == SkipWs(s, i + 1)
       IN IF k <= Len(s) /\ s[k] = 93 THEN ParseOk(JArr(<<>>), k + 1)
          ELSE ParseElems(s, k, nan, <<>>)
     ELSE IF s[i] = 123 THEN
       LET k == SkipWs(s, i + 1)
       IN IF k <= Len(s) /\ s[k] = 125 THEN ParseOk(JObj(<<>>), k + 1)
          ELSE ParseMembers(s, k, nan, JObj(<<>>))
     ELSE IF IsDigit(s[i]) \/ s[i] = 45 THEN ParseNumber(s, i)
     ELSE ParseFail
ParseElems(s, i, nan, acc) ==
  LET r == ParseValue(s, i, nan)
      k == SkipWs(s, r.i)
  IN IF ~r.ok \/ k > Len(s) THEN ParseFail
     ELSE IF s[k] = 44 THEN ParseElems(s, k + 1, nan, Append(acc, r.val))
     ELSE IF s[k] = 93 THEN ParseOk(JArr(Append(acc, r.val)), k + 1)
     ELSE ParseFail
ParseMembers(s, i0, nan, acc) ==
  LET i == SkipWs(s, i0)
      q == IF i <= Len(s) /\ s[i] = 34 THEN QuoteEnd(s, i + 1) ELSE 0
      c == SkipWs(s, q + 1)
  IN IF q = 0 \/ c > Len(s) \/ s[c] # 58 THEN ParseFail
     ELSE LET r == ParseValue(s, c + 1, nan)
              k == SkipWs(s, r.i)
              next == DictSet(acc, SubSeq(s, i + 1, q - 1), r.val)
          IN IF ~r.ok \/ k > Len(s) THEN ParseFail
             ELSE IF s[k] = 44 THEN ParseMembers(s, k + 1, nan, next)
             ELSE IF s[k] = 125 THEN ParseOk(next, k + 1)
             ELSE ParseFail

\* A whole document: one value, then only blanks.
ParseDocument(s, nan) ==
  LET r == ParseValue(s, 1, nan)
  IN IF r.ok /\ SkipWs(s, r.i) > Len(s) THEN r ELSE ParseFail

\* orjson.loads(text), json.loads(text): [ok, val]; ~ok is the exception.
orjson_loads(s) == ParseDocument(s, FALSE)
json_loads(s) == ParseDocument(s, TRUE)

----------------------------------------------------------------------------
(* intersect_json.  Python's None is both JSON null and "no common part".  *)

\* A slip in the map: each canonical form keeps only its last item
\* (assignment instead of setdefault(...).append).
CanonToItemsLastOnly(items) ==
  [key \in {Dumps(normalize_json(items[i])) : i \in DOMAIN items} |->
     <<items[CHOOSE i \in DOMAIN items :
               /\ Dumps(normalize_json(items[i])) = key
               /\ \A j \in DOMAIN items :
                    Dumps(normalize_json(items[j])) = key => j <= i]>>]

\* canon_to_items_a: canonical bytes -> the items of a with that form.
CanonKey(item) == Dumps(normalize_json(item))
CanonToItems(items) ==
  [key \in {CanonKey(items[i]) : i \in DOMAIN items} |->
     SelectSeq(items, LAMBDA item : CanonKey(item) = key)]

\* The loop over b (lines 76-83): m is canon_to_items_a, common the result.
RECURSIVE IntersectLoop(_, _, _, _)
IntersectLoop(items_b, i, m, common) ==
  IF i > Len(items_b) THEN common
  ELSE LET item == items_b[i]
           key == CanonKey(item)
       IN IF key \in DOMAIN m /\ m[key] # <<>>
            THEN LET popped == SubSeq(m[key], 1, Len(m[key]) - 1)
                     m2 == IF popped = <<>>
                             THEN [k \in DOMAIN m \ {key} |-> m[k]]
                             ELSE [m EXCEPT ![key] = popped]
                 IN IntersectLoop(items_b, i + 1, m2, Append(common, item))
            ELSE IntersectLoop(items_b, i + 1, m, common)

RECURSIVE intersect_json(_, _)
RECURSIVE IntersectKeys(_, _, _, _)
\* The loop over sorted(common_keys) (lines 63-66).
IntersectKeys(x, y, ks, result) ==
  IF ks = <<>> THEN result
  ELSE LET k == Head(ks)
           sub == intersect_json(DictGet(x, k), DictGet(y, k))
       IN IntersectKeys(x, y, Tail(ks),
                        IF sub # JNull THEN DictSet(result, k, sub) ELSE result)
intersect_json(x, y) ==
  IF IsDict(x) /\ IsDict(y) THEN
    LET common_keys == DictKeys(x) \cap DictKeys(y)
        result == IntersectKeys(x, y, SortedKeys(common_keys), JObj(<<>>))
    IN IF result.v # <<>> THEN result ELSE JNull
  ELSE IF IsList(x) /\ IsList(y) THEN
    LET common == IntersectLoop(y.v, 1, CanonToItems(x.v), <<>>)
    IN IF common # <<>> THEN JArr(common) ELSE JNull
  ELSE IF deep_equal_ignore_order(x, y) THEN x
  ELSE JNull

----------------------------------------------------------------------------
(* diff_json.  A result is [only_in_a, only_in_b, modified], three         *)
(* sequences of entries; a path is a byte string.                          *)

EmptyDiffs == [only_in_a |-> <<>>, only_in_b |-> <<>>, modified |-> <<>>]

\* f"{path}.{k}" and path + "[]"
KeyPath(path, k) == path \o <<46>> \o k
ItemsPath(path) == path \o <<91, 93>>

\* multiset_counts(lst): canonical bytes -> count, as the sequence of
\* <<key, count>> in the dict's insertion order (first occurrences).
RECURSIVE multiset_counts(_)
multiset_counts(lst) ==
  IF lst = <<>> THEN <<>>
  ELSE LET counts == multiset_counts(SubSeq(lst, 1, Len(lst) - 1))
           key == CanonKey(lst[Len(lst)])
       IN IF \E i \in DOMAIN counts : counts[i][1] = key
            THEN [i \in DOMAIN counts |->
                    IF counts[i][1] = key THEN <<key, counts[i][2] + 1>>
                    ELSE counts[i]]
            ELSE Append(counts, <<key, 1>>)

\* counts.get(key, 0)
CountGet(counts, key) ==
  IF \E i \in DOMAIN counts : counts[i][1] = key
    THEN counts[CHOOSE i \in DOMAIN counts : counts[i][1] = key][2]
    ELSE 0

\* A slip in the entry's value: the canonical bytes, not decoded.
DecodeKeyRaw(key) == JStr(key)

\* orjson.loads(key), and json.loads(key) when that raises (lines 147-150).
DecodeKey(key) ==
  LET r == orjson_loads(key) IN IF r.ok THEN r.val ELSE json_loads(key).val

\* The entries one of the two loops over counts.items() appends
\* (lines 144-151, 154-161).
RECURSIVE ExtraEntries(_, _, _)
ExtraEntries(mine, theirs, path) ==
  IF mine = <<>> THEN <<>>
  ELSE LET key == mine[1][1]
           extra == mine[1][2] - CountGet(theirs, key)
           rest == ExtraEntries(Tail(mine), theirs, path)
       IN IF extra > 0
            THEN <<[path |-> ItemsPath(path), value |-> DecodeKey(key),
                    count |-> extra]>> \o rest
            ELSE rest

\* A slip in the entry: the b field filled from a.
ModifiedEntrySameSide(path, x, y) == [path |-> path, a |-> x, b |-> x]

\* {"path": path, "a": x, "b": y} (lines 124-128, 168)
ModifiedEntry(path, x, y) == [path |-> path, a |-> x, b |-> y]

\* A slip in the key loops: the keys taken in descending order.
OnlyEntriesReversed(d, ks, path) ==
  [i \in DOMAIN ks |->
     [path |-> KeyPath(path, ks[Len(ks) + 1 - i]),
      value |-> DictGet(d, ks[Len(ks) + 1 - i])]]

OnlyEntries(d, ks, path) ==
  [i \in DOMAIN ks |-> [path |-> KeyPath(path, ks[i]), value |-> DictGet(d, ks[i])]]

RECURSIVE diff_json(_, _, _)
RECURSIVE DiffShared(_, _, _, _, _)
\* The loop over sorted(keys_a & keys_b) (lines 116-128).
DiffShared(x, y, ks, path, diffs) ==
  IF ks = <<>> THEN diffs
  ELSE LET k == Head(ks)
           sub_a == DictGet(x, k)
           sub_b == DictGet(y, k)
           composite == IsDict(sub_a) \/ IsList(sub_a) \/ IsDict(sub_b) \/ IsList(sub_b)
           sub_diffs == diff_json(sub_a, sub_b, KeyPath(path, k))
           next ==
             IF composite THEN
               [only_in_a |-> diffs.only_in_a \o sub_diffs.only_in_a,
                only_in_b |-> diffs.only_in_b \o sub_diffs.only_in_b,
                modified |-> diffs.modified \o sub_diffs.modified]
             ELSE IF ~deep_equal_ignore_order(sub_a, sub_b) THEN
               [diffs EXCEPT !.modified =
                  Append(@, ModifiedEntry(KeyPath(path, k), sub_a, sub_b))]
             ELSE diffs
       IN DiffShared(x, y, Tail(ks), path, next)
diff_json(x, y, path) ==
  IF IsDict(x) /\ IsDict(y) THEN
    LET keys_a == DictKeys(x)
        keys_b == DictKeys(y)
        first == [only_in_a |-> OnlyEntries(x, SortedKeys(keys_a \ keys_b), path),
                  only_in_b |-> OnlyEntries(y, SortedKeys(keys_b \ keys_a), path),
                  modified |-> <<>>]
    IN DiffShared(x, y, SortedKeys(keys_a \cap keys_b), path, first)
  ELSE IF IsList(x) /\ IsList(y) THEN
    LET counts_a == multiset_counts(x.v)
        counts_b == multiset_counts(y.v)
    IN [only_in_a |-> ExtraEntries(counts_a, counts_b, path),
        only_in_b |-> ExtraEntries(counts_b, counts_a, path),
        modified |-> <<>>]
  ELSE IF ~deep_equal_ignore_order(x, y) THEN
    [EmptyDiffs EXCEPT !.modified = <<ModifiedEntry(path, x, y)>>]
  ELSE EmptyDiffs

\* The default path "$".
RootPath == <<36>>

----------------------------------------------------------------------------
(* similarity_score.  The float result is kept as the fraction num/den it  *)
(* is computed from: it is 1.0 exactly when num = den.                     *)

\* ngrams(s, 2): {s[i:i+2] for i in range(max(1, len(s) - 1))}
ngrams(s) ==
  LET last == IF Len(s) - 1 > 1 THEN Len(s) - 1 ELSE 1
  IN {SubSeq(s, i + 1, IF i + 2 <= Len(s) THEN i + 2 ELSE Len(s)) : i \in 0..(last - 1)}

Score(num, den) == [num |-> num, den |-> den]

similarity_score(x, y) ==
  LET ca == normalize_json(x)
      cb == normalize_json(y)
      ga == ngrams(Dumps(ca))
      gb == ngrams(Dumps(cb))
      inter == Cardinality(ga \cap gb)
      union == Cardinality(ga \cup gb)
  IN IF PyEq(ca, cb) THEN Score(1, 1)
     ELSE IF ga = {} /\ gb = {} THEN Score(1, 1)
     ELSE IF ga = {} \/ gb = {} THEN Score(0, 1)
     ELSE IF union # 0 THEN Score(inter, union) ELSE Score(0, 1)

----------------------------------------------------------------------------
(* The inputs the core functions are applied to.                           *)

\* The longest array of the array family.
MaxLen == 3

KeyA == <<97>>
KeyB == <<98>>

\* {"a":1,"b":2} in two insertion orders.
ObjAB == JObj(<< <<KeyA, JInt(1)>>, <<KeyB, JInt(2)>> >>)
ObjBA == JObj(<< <<KeyB, JInt(2)>>, <<KeyA, JInt(1)>> >>)

Scalars == {JNull, JBool(TRUE), JInt(1), JFloat(1), JInt(2), JStr(KeyA)}

SeqsUpTo(S, n) == UNION {[1..k -> S] : k \in 0..n}

\* Arrays with repeated elements, and an object element whose keys are not
\* in sorted order.
ArrayElems == {JInt(1), JInt(2), ObjBA}
Arrays == {JArr(items) : items \in SeqsUpTo(ArrayElems, MaxLen)}

\* Objects over the keys a and b, in every insertion order, with scalar,
\* object and array members.
MemberValues ==
  {JInt(1), JInt(2), JArr(<<JInt(1)>>), JObj(<<>>),
   JObj(<< <<KeyA, JInt(1)>> >>), JObj(<< <<KeyA, JInt(2)>> >>)}
Objects ==
  {JObj(<<>>)}
  \cup {JObj(<< <<k, x>> >>) : k \in {KeyA, KeyB}, x \in MemberValues}
  \cup {JObj(<< <<k[1], x>>, <<k[2], y>> >>) :
          k \in {<<KeyA, KeyB>>, <<KeyB, KeyA>>}, x \in MemberValues, y \in MemberValues}

\* Every kind of value, with the number/bool/null members in arrays and
\* objects and arrays permuted inside objects and arrays.
Mixed ==
  Scalars
  \cup {JArr(<<>>), JObj(<<>>), ObjAB, ObjBA}
  \cup {JArr(<<x>>) : x \in Scalars}
  \cup {JObj(<< <<KeyA, x>> >>) : x \in Scalars}
  \cup {JObj(<< <<KeyA, JArr(items)>> >>) :
          items \in {<<JInt(1), JInt(2)>>, <<JInt(2), JInt(1)>>}}
  \cup {JArr(<<JArr(<<JInt(2), JInt(1)>>), ObjBA>>),
        JArr(<<ObjAB, JArr(<<JInt(1), JInt(2)>>)>>)}

InputPairs == (Arrays \X Arrays) \cup (Objects \X Objects) \cup (Mixed \X Mixed)

----------------------------------------------------------------------------
(* The core functions applied to a pair of inputs: op is the function      *)
(* that ran ("init" before any), res its return value.                     *)

NoSession == [last_compare |-> FALSE]

Init ==
  /\ \E p \in InputPairs : a = p[1] /\ b = p[2]
  /\ op = "init"
  /\ res = JNull
  /\ stack = <<>>
  /\ session = NoSession
  /\ screen = "none"

Normalize ==
  /\ op = "init"
  /\ op' = "normalize_json"
  /\ res' = normalize_json(a)
  /\ UNCHANGED <<a, b, stack, session, screen>>

Intersect ==
  /\ op = "init"
  /\ op' = "intersect_json"
  /\ res' = intersect_json(a, b)
  /\ UNCHANGED <<a, b, stack, session, screen>>

Diff ==
  /\ op = "init"
  /\ op' = "diff_json"
  /\ res' = diff_json(a, b, RootPath)
  /\ UNCHANGED <<a, b, stack, session, screen>>

Similarity ==
  /\ op = "init"
  /\ op' = "similarity_score"
  /\ res' = similarity_score(a, b)
  /\ UNCHANGED <<a, b, stack, session, screen>>

Next == Normalize \/ Intersect \/ Diff \/ Similarity

Spec == Init /\ [][Next]_vars

----------------------------------------------------------------------------
(* The recursion of normalize_json on the interpreter's call stack.  Each  *)
(* call is a frame [node, next, done]: the value it was called with, the   *)
(* index of the child its comprehension visits next, and the normalized    *)
(* children so far.  The interpreter raises RecursionError when a call     *)
(* would make the stack deeper than its limit; nothing in normalize_json   *)
(* or its callers catches it.                                              *)

\* The interpreter's recursion limit, scaled down.
RecursionLimit == 3
\* The deepest nesting of the inputs below.
MaxNest == 4

RecursionError == [t |-> "RecursionError", v |-> 0]

\* value[k] for k in sorted(value.keys()) (line 34); the items (line 36).
Children(value) ==
  IF IsDict(value) THEN
    LET ks == SortedKeys(DictKeys(value)) IN [i \in DOMAIN ks |-> DictGet(value, ks[i])]
  ELSE IF IsList(value) THEN value.v
  ELSE <<>>

\* What a call returns once its children are normalized (lines 34, 39, 42).
Returned(value, done) ==
  IF IsDict(value) THEN
    LET ks == SortedKeys(DictKeys(value)) IN JObj([i \in DOMAIN ks |-> <<ks[i], done[i]>>])
  ELSE IF IsList(value) THEN JArr(SortedByDumps(done))
  ELSE value

Frame(value) == [node |-> value, next |-> 1, done |-> <<>>]

RECURSIVE Nested(_)
Nested(n) ==
  IF n = 0 THEN {JInt(1), JInt(2)}
  ELSE LET inner == Nested(n - 1)
       IN inner \cup {JArr(<<x>>) : x \in inner}
                \cup {JArr(<<JInt(2), x>>) : x \in inner}
                \cup {JObj(<< <<KeyA, x>> >>) : x \in inner}

InitDeep ==
  /\ a \in Nested(MaxNest)
  /\ b = JNull
  /\ op = "init"
  /\ res = JNull
  /\ stack = <<>>
  /\ session = NoSession
  /\ screen = "none"

\* normalize_json(a) is called.
Call ==
  /\ op = "init"
  /\ op' = "running"
  /\ stack' = <<Frame(a)>>
  /\ UNCHANGED <<a, b, res, session, screen>>

\* The top call calls normalize_json on its next child: a new frame.
Descend ==
  /\ op = "running"
  /\ LET top == stack[Len(stack)]
     IN /\ top.next <= Len(Children(top.node))
        /\ Len(stack) < RecursionLimit
        /\ stack' = Append(stack, Frame(Children(top.node)[top.next]))
  /\ UNCHANGED <<a, b, op, res, session, screen>>

\* The same call with the stack at its limit: RecursionError, which unwinds
\* every frame and leaves normalize_json.
Overflow ==
  /\ op = "running"
  /\ LET top == stack[Len(stack)]
     IN /\ top.next <= Len(Children(top.node))
        /\ Len(stack) >= RecursionLimit
  /\ op' = "raised"
  /\ res' = RecursionError
  /\ stack' = <<>>
  /\ UNCHANGED <<a, b, session, screen>>

\* The top call has all its children: it returns to its caller, or, the
\* outermost, returns the result.
Return ==
  /\ op = "running"
  /\ LET n == Len(stack)
         top == stack[n]
         value == Returned(top.node, top.done)
     IN /\ top.next > Len(Children(top.node))
        /\ IF n = 1
             THEN /\ op' = "normalize_json"
                  /\ res' = value
                  /\ stack' = <<>>
             ELSE /\ stack' = [SubSeq(stack, 1, n - 1) EXCEPT
                                 ![n - 1].next = @ + 1,
                                 ![n - 1].done = Append(@, value)]
                  /\ UNCHANGED <<op, res>>
  /\ UNCHANGED <<a, b, session, screen>>

NextDeep == Call \/ Descend \/ Overflow \/ Return

SpecDepth == InitDeep /\ [][NextDeep]_vars

\* The frames normalize_json(value) needs: one per level of the tree.
RECURSIVE FramesNeeded(_)
FramesNeeded(value) ==
  LET cs == Children(value)
      below == {FramesNeeded(cs[i]) : i \in DOMAIN cs}
  IN 1 + (IF below = {} THEN 0 ELSE CHOOSE m \in below : \A n \in below : n <= m)

DepthExceeded == [t |-> "DepthExceeded", v |-> 0]

\* C8 as stated: a call on an input deeper than the supported depth ends
\* with the DepthExceeded condition, not with recursion exhaustion; a call on
\* an input within the limit ends with its result.
C8_DepthGuarded ==
  /\ (op = "raised" \/ op = "normalize_json") =>
       IF FramesNeeded(a) > RecursionLimit
         THEN res = DepthExceeded
         ELSE op = "normalize_json" /\ res = normalize_json(a)

----------------------------------------------------------------------------
(* main(): one action per rerun of the script.  session is                 *)
(* st.session_state; screen is what the rerun showed: "error" (st.error),  *)
(* "provide_both" (st.info, line 530), "prompt" (st.info, line 558) or     *)
(* "results" (the tabs).  The st.cache_data wrappers return what the       *)
(* wrapped function returns, so a cached call is the call.                 *)

\* default_a and default_b (lines 480-499), as bytes.
DefaultA ==
  <<123, 10, 32, 32, 34, 110, 97, 109, 101, 34, 58, 32, 34, 65, 108, 105,
    99, 101, 34, 44, 10, 32, 32, 34, 114, 111, 108, 101, 115, 34, 58, 32,
    91, 34, 117, 115, 101, 114, 34, 44, 32, 34, 97, 100, 109, 105, 110, 34,
    93, 44, 10, 32, 32, 34, 109, 101, 116, 97, 34, 58, 32, 123, 34, 97, 103,
    101, 34, 58, 32, 51, 48, 44, 32, 34, 97, 99, 116, 105, 118, 101, 34, 58,
    32, 116, 114, 117, 101, 125, 44, 10, 32, 32, 34, 105, 116, 101, 109,
    115, 34, 58, 32, 91, 10, 32, 32, 32, 32, 123, 34, 105, 100, 34, 58, 32,
    49, 44, 32, 34, 113, 116, 121, 34, 58, 32, 50, 125, 44, 10, 32, 32, 32,
    32, 123, 34, 105, 100, 34, 58, 32, 50, 44, 32, 34, 113, 116, 121, 34,
    58, 32, 49, 125, 10, 32, 32, 93, 10, 125>>
DefaultB ==
  <<123, 10, 32, 32, 34, 114, 111, 108, 101, 115, 34, 58, 32, 91, 34, 97,
    100, 109, 105, 110, 34, 44, 32, 34, 117, 115, 101, 114, 34, 93, 44, 10,
    32, 32, 34, 110, 97, 109, 101, 34, 58, 32, 34, 65, 108, 105, 99, 101,
    34, 44, 10, 32, 32, 34, 109, 101, 116, 97, 34, 58, 32, 123, 34, 97, 99,
    116, 105, 118, 101, 34, 58, 32, 116, 114, 117, 101, 44, 32, 34, 97, 103,
    101, 34, 58, 32, 51, 48, 125, 44, 10, 32, 32, 34, 105, 116, 101, 109,
    115, 34, 58, 32, 91, 10, 32, 32, 32, 32, 123, 34, 113, 116, 121, 34, 58,
    32, 49, 44, 32, 34, 105, 100, 34, 58, 32, 50, 125, 44, 10, 32, 32, 32,
    32, 123, 34, 105, 100, 34, 58, 32, 51, 44, 32, 34, 113, 116, 121, 34,
    58, 32, 53, 125, 10, 32, 32, 93, 44, 10, 32, 32, 34, 101, 120, 116, 114,
    97, 34, 58, 32, 34, 115, 117, 114, 112, 114, 105, 115, 101, 34, 10,
    125>>

\* What the user may have in a text area: the defaults, a blank, an
\* unclosed bracket, and {"a":NaN}.
Texts ==
  {DefaultA, DefaultB,
   <<32>>,
   <<91>>,
   <<123, 34, 97, 34, 58, 78, 97, 78, 125>>}

\* text.strip()
RECURSIVE Strip(_)
Strip(text) ==
  IF text = <<>> THEN text
  ELSE IF IsWs(text[1]) THEN Strip(Tail(text))
  ELSE IF IsWs(text[Len(text)]) THEN Strip(SubSeq(text, 1, Len(text) - 1))
  ELSE text

\* try_load_json(text): [val, err]; err is "" or the "Invalid JSON: ..."
\* message.
try_load_json(text0) ==
  LET text == Strip(text0)
      first == orjson_loads(text)
      second == json_loads(text)
  IN IF text = <<>> THEN [val |-> JNull, err |-> ""]
     ELSE IF first.ok THEN [val |-> first.val, err |-> ""]
     ELSE IF second.ok THEN [val |-> second.val, err |-> ""]
     ELSE [val |-> JNull, err |-> "Invalid JSON"]

\* cached_diff_json, cached_intersect_json, cached_similarity_score: each
\* parses the two JSON strings and calls the core function.
cached_diff_json(a_json, b_json) ==
  diff_json(orjson_loads(a_json).val, orjson_loads(b_json).val, RootPath)
cached_intersect_json(a_json, b_json) ==
  intersect_json(orjson_loads(a_json).val, orjson_loads(b_json).val)
cached_similarity_score(a_json, b_json) ==
  similarity_score(orjson_loads(a_json).val, orjson_loads(b_json).val)

InitMain ==
  /\ a = JNull
  /\ b = JNull
  /\ op = "init"
  /\ res = JNull
  /\ stack = <<>>
  /\ session = [last_compare |-> FALSE, diffs |-> EmptyDiffs, common |-> JNull,
                similarity |-> Score(0, 1), json_a |-> JNull, json_b |-> JNull,
                text_a |-> DefaultA, text_b |-> DefaultB]
  /\ screen = "none"

\* A rerun with the Compare button clicked, the text areas holding text_a
\* and text_b (lines 507-548).
Compare(text_a, text_b) ==
  LET la == try_load_json(text_a)
      lb == try_load_json(text_b)
      texts == [session EXCEPT !.text_a = text_a, !.text_b = text_b]
      a_json_str == Dumps(la.val)
      b_json_str == Dumps(lb.val)
  IN /\ IF la.err # "" \/ lb.err # "" THEN
          /\ screen' = "error"
          /\ session' = texts
        ELSE IF la.val = JNull \/ lb.val = JNull THEN
          /\ screen' = "provide_both"
          /\ session' = texts
        ELSE
          /\ screen' = "results"
          /\ session' = [texts EXCEPT
                           !.last_compare = TRUE,
                           !.diffs = cached_diff_json(a_json_str, b_json_str),
                           !.common = cached_intersect_json(a_json_str, b_json_str),
                           !.similarity = cached_similarity_score(a_json_str, b_json_str),
                           !.json_a = la.val,
                           !.json_b = lb.val]
     /\ UNCHANGED <<a, b, op, res, stack>>

\* A rerun without the click (lines 507-518, 549-559).
Rerun(text_a, text_b) ==
  /\ session' = [session EXCEPT !.text_a = text_a, !.text_b = text_b]
  /\ screen' = IF session.last_compare THEN "results" ELSE "prompt"
  /\ UNCHANGED <<a, b, op, res, stack>>

NextMain ==
  \/ \E text_a \in Texts, text_b \in Texts : Compare(text_a, text_b)
  \/ \E text_a \in Texts, text_b \in Texts : Rerun(text_a, text_b)

SpecMain == InitMain /\ [][NextMain]_vars

\* The five values a successful Compare stores.
Stored == <<session.diffs, session.common, session.similarity,
            session.json_a, session.json_b>>

\* Two scores are the same float.
SameScore(x, y) == x.num * y.den = y.num * x.den

\* C10 as stated: once last_compare is set, the stored diffs, common and
\* similarity are diff_json, intersect_json and similarity_score of the
\* stored json_a and json_b; and results are shown only after a successful
\* Compare.
C10_StoredMatchesInputs ==
  /\ session.last_compare =>
       /\ session.diffs = diff_json(session.json_a, session.json_b, RootPath)
       /\ session.common = intersect_json(session.json_a, session.json_b)
       /\ SameScore(session.similarity,
                    similarity_score(session.json_a, session.json_b))
  /\ screen = "results" => session.last_compare

\* The rest of C10: a Compare that shows an error, or asks for both inputs,
\* leaves the five stored values and last_compare as they were.
C10_FailedCompareKeepsStored ==
  [][screen' \in {"error", "provide_both"} =>
       /\ Stored' = Stored
       /\ session.last_compare' = session.last_compare]_vars

----------------------------------------------------------------------------
(* Properties of diff_json.                                                *)

\* The number of items of a list whose canonical bytes are key.
CountOf(items, key) == Cardinality({i \in DOMAIN items : CanonKey(items[i]) = key})
CanonKeys(items) == {CanonKey(items[i]) : i \in DOMAIN items}

\* C1: diff antisymmetry.  The only_in_a list of diff_json(a, b) is the
\* only_in_b list of diff_json(b, a), entry for entry and in the same order,
\* and the other way round; the modified list of diff_json(b, a) has the same
\* paths in the same order, with the a and b fields of each entry swapped.
C1_DiffAntisymmetry ==
  op = "diff_json" =>
    LET rev == diff_json(b, a, RootPath)
    IN /\ res.only_in_a = rev.only_in_b
       /\ res.only_in_b = rev.only_in_a
       /\ Len(res.modified) = Len(rev.modified)
       /\ \A i \in DOMAIN res.modified :
            rev.modified[i] = [path |-> res.modified[i].path,
                               a |-> res.modified[i].b,
                               b |-> res.modified[i].a]

\* A diff of two objects with an entry only in a and a modified entry.
C1_Witness ==
  /\ op = "diff_json"
  /\ IsDict(a) /\ IsDict(b)
  /\ res.only_in_a # <<>>
  /\ res.modified # <<>>

\* C2 as stated: the diff is empty exactly when the two inputs are
\* order-equivalent (normalize_json(a) == normalize_json(b)).
C2_EmptyIffEquivalent ==
  op = "diff_json" => ((res = EmptyDiffs) <=> deep_equal_ignore_order(a, b))

\* C5: for two arrays, only_in_a holds exactly one entry at "$[]" for each
\* canonical form more frequent in a than in b, with the excess as count and
\* the normalized item as value; only_in_b the same for b; modified is empty.
ArrayEntries(list, mine, theirs) ==
  /\ \A k \in CanonKeys(mine) :
       LET extra == CountOf(mine, k) - CountOf(theirs, k)
           hits == {i \in DOMAIN list : CanonKey(list[i].value) = k}
       IN IF extra > 0
            THEN /\ Cardinality(hits) = 1
                 /\ \A i \in hits :
                      /\ list[i].path = <<36, 91, 93>>
                      /\ list[i].count = extra
                      /\ \E j \in DOMAIN mine : list[i].value = normalize_json(mine[j])
            ELSE hits = {}
  /\ \A i \in DOMAIN list : CanonKey(list[i].value) \in CanonKeys(mine)
C5_ArrayMultisetDiff ==
  (op = "diff_json" /\ IsList(a) /\ IsList(b)) =>
    /\ ArrayEntries(res.only_in_a, a.v, b.v)
    /\ ArrayEntries(res.only_in_b, b.v, a.v)
    /\ res.modified = <<>>

\* [1,1,2] against [1,2,2]: one excess 1 in a, one excess 2 in b.
C5_Witness ==
  /\ op = "diff_json"
  /\ a = JArr(<<JInt(1), JInt(1), JInt(2)>>)
  /\ b = JArr(<<JInt(1), JInt(2), JInt(2)>>)
  /\ res.only_in_a = <<[path |-> <<36, 91, 93>>, value |-> JInt(1), count |-> 1]>>
  /\ res.only_in_b = <<[path |-> <<36, 91, 93>>, value |-> JInt(2), count |-> 1]>>

\* C9, for two objects at the root path "$".  Keys are one byte long here,
\* so the key an entry belongs to is the byte after "$.".
TopKey(e) == <<e.path[3]>>
EntriesOf(list, k) == SelectSeq(list, LAMBDA e : TopKey(e) = k)
BothObjectsOrArrays(x, y) == (IsDict(x) /\ IsDict(y)) \/ (IsList(x) /\ IsList(y))

\* What key k adds to only_in_a of diff_json(x, y): the whole subtree x[k]
\* when only x has k, the recursive diff's entries when both values are
\* objects or both arrays, nothing otherwise.
OnlyContribution(x, y, k, side) ==
  LET p == <<36, 46>> \o k
  IN IF k \notin DictKeys(x) THEN <<>>
     ELSE IF k \notin DictKeys(y) THEN <<[path |-> p, value |-> DictGet(x, k)]>>
     ELSE IF BothObjectsOrArrays(DictGet(x, k), DictGet(y, k))
       THEN (IF side = "a" THEN diff_json(DictGet(x, k), DictGet(y, k), p).only_in_a
                           ELSE diff_json(DictGet(y, k), DictGet(x, k), p).only_in_b)
     ELSE <<>>

\* What key k adds to modified: the recursive diff's entries when both values
\* are objects or both arrays; otherwise one entry with both raw values when
\* the two are not order-equivalent.
ModifiedContribution(x, y, k) ==
  LET p == <<36, 46>> \o k
  IN IF k \notin DictKeys(x) \cap DictKeys(y) THEN <<>>
     ELSE IF BothObjectsOrArrays(DictGet(x, k), DictGet(y, k))
       THEN diff_json(DictGet(x, k), DictGet(y, k), p).modified
     ELSE IF ~PyEq(normalize_json(DictGet(x, k)), normalize_json(DictGet(y, k)))
       THEN <<[path |-> p, a |-> DictGet(x, k), b |-> DictGet(y, k)]>>
     ELSE <<>>

C9_Contents ==
  \A k \in DictKeys(a) \cup DictKeys(b) :
    /\ EntriesOf(res.only_in_a, k) = OnlyContribution(a, b, k, "a")
    /\ EntriesOf(res.only_in_b, k) = OnlyContribution(b, a, k, "b")
    /\ EntriesOf(res.modified, k) = ModifiedContribution(a, b, k)

AscendingKeys(list) ==
  \A i, j \in DOMAIN list : i < j => ~BytesLess(TopKey(list[j]), TopKey(list[i]))

\* The entries of keys that only one side has come first, in ascending key
\* order; the entries spliced in from shared keys follow, in ascending key
\* order.
DirectThenSpliced(list, shared) ==
  \A i, j \in DOMAIN list :
    i < j =>
      LET ki == TopKey(list[i])
          kj == TopKey(list[j])
      IN /\ (ki \in shared) = (kj \in shared) => ~BytesLess(kj, ki)
         /\ ~(ki \in shared /\ kj \notin shared)

\* C9 as stated: the contents above, and in each of the three lists the
\* entries in ascending key order.
C9_AscendingInEachList ==
  (op = "diff_json" /\ IsDict(a) /\ IsDict(b)) =>
    /\ C9_Contents
    /\ AscendingKeys(res.only_in_a)
    /\ AscendingKeys(res.only_in_b)
    /\ AscendingKeys(res.modified)

\* C9 as amended: the contents above; in only_in_a and only_in_b the entries
\* of the keys only that side has come first in ascending key order and the
\* spliced entries of shared keys follow in ascending key order; modified is
\* in ascending key order.
C9_ObjectDiff ==
  (op = "diff_json" /\ IsDict(a) /\ IsDict(b)) =>
    /\ C9_Contents
    /\ DirectThenSpliced(res.only_in_a, DictKeys(a) \cap DictKeys(b))
    /\ DirectThenSpliced(res.only_in_b, DictKeys(a) \cap DictKeys(b))
    /\ AscendingKeys(res.modified)

\* Key b only in a, key a shared with two objects whose diff has an entry
\* only in a: the entry of b precedes the spliced entry of a.
C9_Witness ==
  /\ op = "diff_json"
  /\ IsDict(a) /\ IsDict(b)
  /\ DictKeys(a) = {KeyA, KeyB}
  /\ DictKeys(b) = {KeyA}
  /\ IsDict(DictGet(a, KeyA)) /\ IsDict(DictGet(b, KeyA))
  /\ Len(res.only_in_a) = 2
  /\ TopKey(res.only_in_a[1]) = KeyB
  /\ TopKey(res.only_in_a[2]) = KeyA

----------------------------------------------------------------------------
(* Properties of intersect_json.                                           *)

\* C3: for two arrays the result is the multiset intersection by canonical
\* form: the items of b, in b's order, that are among the first
\* CountOf(a, k) occurrences of their canonical form k in b; they are b's
\* own items, and the result is None exactly when no item of b matches.
EarlierSame(items, i) ==
  Cardinality({j \in 1..(i - 1) : CanonKey(items[j]) = CanonKey(items[i])})
Matched(items_a, items_b) ==
  {i \in DOMAIN items_b : EarlierSame(items_b, i) < CountOf(items_a, CanonKey(items_b[i]))}
C3_ArrayIntersection ==
  (op = "intersect_json" /\ IsList(a) /\ IsList(b)) =>
    LET out == IF res = JNull THEN <<>> ELSE res.v
        m == Matched(a.v, b.v)
        pos == [n \in 1..Cardinality(m) |->
                  CHOOSE i \in m : Cardinality({j \in m : j < i}) = n - 1]
    IN /\ (res = JNull) <=> (m = {})
       /\ res # JNull => IsList(res)
       /\ out = [n \in 1..Cardinality(m) |-> b.v[pos[n]]]
       /\ \A k \in CanonKeys(a.v) \cup CanonKeys(b.v) :
            LET ca == CountOf(a.v, k)
                cb == CountOf(b.v, k)
            IN CountOf(out, k) = IF ca < cb THEN ca ELSE cb

\* a has two of a canonical form and b three, and b's item is not in
\* canonical key order.
C3_Witness ==
  /\ op = "intersect_json"
  /\ IsList(a) /\ IsList(b)
  /\ \E k \in CanonKeys(a.v) : CountOf(a.v, k) = 2 /\ CountOf(b.v, k) = 3
  /\ res # JNull
  /\ \E i \in DOMAIN res.v : res.v[i] = ObjBA

\* C4 as stated: for a pair that is neither two objects nor two arrays the
\* result is present (not None), and equal to the value, exactly when the
\* two are order-equivalent.
C4_ScalarPresentIffEquivalent ==
  (op = "intersect_json" /\ ~(IsDict(a) /\ IsDict(b)) /\ ~(IsList(a) /\ IsList(b))) =>
    /\ (res # JNull) <=> deep_equal_ignore_order(a, b)
    /\ res # JNull => res = a

----------------------------------------------------------------------------
(* Properties of normalize_json and similarity_score.                      *)

\* y is x with object keys and array items reordered at any depth.
RECURSIVE Reordered(_, _)
Reordered(x, y) ==
  IF x.t # y.t THEN FALSE
  ELSE IF x.t = "arr" THEN
    /\ Len(x.v) = Len(y.v)
    /\ \E p \in Permutations(DOMAIN x.v) :
         \A i \in DOMAIN x.v : Reordered(x.v[i], y.v[p[i]])
  ELSE IF x.t = "obj" THEN
    /\ DictKeys(x) = DictKeys(y)
    /\ \A k \in DictKeys(x) : Reordered(DictGet(x, k), DictGet(y, k))
  ELSE x = y

C7_OneIffEquivalent ==
  op = "similarity_score" =>
    IF deep_equal_ignore_order(a, b)
      THEN res.num = res.den
      ELSE 0 <= res.num /\ res.num < res.den

=============================================================================
